---------------------------- MODULE Spec2Model ----------------------------
(***************************************************************************)
(* Model of src/src/components/PostureDetector.tsx: the posture analysis   *)
(* (analyzePosture), the angle helper (calculateAngle) and the component's *)
(* detection loop (startCamera, stopCamera, detectPose, the isActive       *)
(* effect).                                                                *)
(*                                                                         *)
(* In analyzePosture, JavaScript numbers are modelled as exact rationals   *)
(* n/d extended with NaN, Infinity and -Infinity, and Math.atan2 is        *)
(* evaluated in degrees to 0.001 degree: the claims about it are about     *)
(* scores rounded to integers.  A missing property (a keypoint without     *)
(* score) is the value undefined, which ToNumber turns into NaN.  In       *)
(* calculateAngle, whose claim is about exact values, the numbers are IEEE *)
(* 754 doubles with every operation rounded as the hardware rounds it.     *)
(***************************************************************************)
EXTENDS Integers, Sequences, FiniteSets, TLC

VARIABLES
    keypoints,      \* analyzePosture's argument (poses[0].keypoints)
    result,         \* what the last analyzePosture call returned, or undefined
    pc,             \* position of the caller of analyzePosture
    isActive,       \* the isActive state of the component, as committed
    postureStatus,  \* the postureStatus state of the component
    detectorRef,    \* detectorRef.current: "null" or "detector"
    animationRef,   \* animationRef.current: 0 (undefined) or a request id
    srcObject,      \* videoRef.current.srcObject: 0 (null) or a stream
    liveStreams,    \* the acquired streams whose tracks were not stopped
    frames,         \* the pending requestAnimationFrame requests
    inflight,       \* the detectPose calls suspended at await estimatePoses
    starts,         \* the startCamera calls suspended at an await
    effect,         \* the isActive effect that is due after a commit
    requested,      \* the number of animation frames requested so far
    captured,       \* the number of estimatePoses calls made so far
    acquired,       \* the number of streams getUserMedia has delivered
    clicks,         \* the number of clicks on the button so far
    stopped,        \* stopCamera has run and Start was not clicked since
    lastPublished,  \* the capture number of the result published last
    calls,          \* the analyzePosture calls made: argument, postureStatus before,
                    \* result, argument after
    failed,         \* a startCamera call has failed and none has succeeded since
    point1,         \* calculateAngle's first argument
    point2,         \* calculateAngle's second argument, the vertex
    point3,         \* calculateAngle's third argument
    angle,          \* what the last calculateAngle call returned, or undefined
    atan2Impl       \* the Math.atan2 of the engine: "fdlibm" or "rounded"

analysisVars == <<keypoints, result, pc>>

angleVars == <<point1, point2, point3, angle, atan2Impl>>

componentVars ==
    <<isActive, postureStatus, detectorRef, animationRef, srcObject, liveStreams,
      frames, inflight, starts, effect, requested, captured, acquired, clicks,
      stopped, lastPublished, calls, failed>>

vars == <<analysisVars, componentVars, angleVars>>

---------------------------------------------------------------------------
(* Bounds of the inputs.                                                   *)

\* the landmarks of the degenerate poses lie on the grid (0..MaxGrid)^2
MaxGrid == 2
\* the landmarks of the seated poses are up to MaxOffset off their level
\* position, and the shoulders and the hips are 5 * MaxOffset wide
MaxOffset == 4
\* clicks on the Start/Stop button in one run
MaxClicks == 3
\* animation frames requested in one run
MaxFrames == 2
\* the arguments of calculateAngle lie on the grid (-MaxCoord..MaxCoord)^2
MaxCoord == 3

---------------------------------------------------------------------------
(* JavaScript numbers.                                                     *)

undefined == [k |-> "undefined"]
NaN == [k |-> "nan", n |-> 0, d |-> 1]
Infinity == [k |-> "inf", n |-> 1, d |-> 1]
NegInfinity == [k |-> "inf", n |-> -1, d |-> 1]

\* the finite number n/d, d > 0
Q(n, d) == [k |-> "fin", n |-> n, d |-> d]
Int2Num(i) == Q(i, 1)

\* ToNumber: undefined becomes NaN
ToNumber(a) == IF a = undefined THEN NaN ELSE a

IsNaN(a) == a.k = "nan"
IsFinite(a) == a.k = "fin"
Sign(a) == IF a.n > 0 THEN 1 ELSE IF a.n < 0 THEN -1 ELSE 0

\* a < b and a > b: false as soon as one side is NaN
Lt(a0, b0) ==
    LET a == ToNumber(a0)
        b == ToNumber(b0)
    IN  IF IsNaN(a) \/ IsNaN(b) THEN FALSE
        ELSE IF a.k = "inf" THEN a.n < 0 /\ ~(b.k = "inf" /\ b.n < 0)
        ELSE IF b.k = "inf" THEN b.n > 0
        ELSE a.n * b.d < b.n * a.d

Gt(a, b) == Lt(b, a)

NumEq(a, b) ==
    /\ ~IsNaN(a) /\ ~IsNaN(b)
    /\ a.k = b.k
    /\ IF a.k = "inf" THEN a.n = b.n ELSE a.n * b.d = b.n * a.d

Neg(a) == IF IsNaN(a) THEN NaN ELSE [a EXCEPT !.n = -a.n]

Add(a, b) ==
    IF IsNaN(a) \/ IsNaN(b) THEN NaN
    ELSE IF a.k = "inf" /\ b.k = "inf" THEN (IF a.n = b.n THEN a ELSE NaN)
    ELSE IF a.k = "inf" THEN a
    ELSE IF b.k = "inf" THEN b
    ELSE Q(a.n * b.d + b.n * a.d, a.d * b.d)

Sub(a, b) == Add(a, Neg(b))

Mul(a, b) ==
    IF IsNaN(a) \/ IsNaN(b) THEN NaN
    ELSE IF a.k = "inf" \/ b.k = "inf"
         THEN (IF Sign(a) * Sign(b) = 0 THEN NaN
               ELSE IF Sign(a) * Sign(b) > 0 THEN Infinity ELSE NegInfinity)
    ELSE Q(a.n * b.n, a.d * b.d)

\* a / b: x/0 is an infinity and 0/0 is NaN
Div(a, b) ==
    IF IsNaN(a) \/ IsNaN(b) THEN NaN
    ELSE IF a.k = "inf" THEN (IF b.k = "inf" THEN NaN
                              ELSE IF Sign(b) < 0 THEN Neg(a) ELSE a)
    ELSE IF b.k = "inf" THEN Q(0, 1)
    ELSE IF b.n = 0 THEN (IF a.n = 0 THEN NaN
                          ELSE IF a.n > 0 THEN Infinity ELSE NegInfinity)
    ELSE IF b.n > 0 THEN Q(a.n * b.d, a.d * b.n)
    ELSE Q(-(a.n * b.d), a.d * (-b.n))

MathAbs(a) == IF IsNaN(a) THEN NaN ELSE [a EXCEPT !.n = IF a.n < 0 THEN -a.n ELSE a.n]

\* Math.max and Math.min return NaN when an argument is NaN
MathMax(a, b) == IF IsNaN(a) \/ IsNaN(b) THEN NaN ELSE IF Lt(a, b) THEN b ELSE a
MathMin(a, b) == IF IsNaN(a) \/ IsNaN(b) THEN NaN ELSE IF Lt(b, a) THEN b ELSE a

\* Math.round: floor(a + 1/2); NaN and the infinities are returned as they are
MathRound(a) ==
    IF ~IsFinite(a) THEN a ELSE Q((2 * a.n + a.d) \div (2 * a.d), 1)

---------------------------------------------------------------------------
(* Math.atan2 in degrees.                                                  *)

\* atan(2^-i) in millionths of a degree, i = 0..23
AtanTable ==
    << 45000000, 26565051, 14036243, 7125016, 3576334, 1789911, 895174,
       447614, 223811, 111906, 55953, 27976, 13988, 6994, 3497, 1749, 874,
       437, 219, 109, 55, 27, 14, 7 >>

Pow2(i) == 2 ^ i

\* rotate the vector (x, y), x > 0, onto the x axis, adding up the angles
RECURSIVE Cordic(_, _, _, _)
Cordic(x, y, z, i) ==
    IF y = 0 \/ i >= Len(AtanTable) THEN z
    ELSE IF y > 0
         THEN Cordic(x + (y \div Pow2(i)), y - (x \div Pow2(i)), z + AtanTable[i + 1], i + 1)
         ELSE Cordic(x - (y \div Pow2(i)), y + (x \div Pow2(i)), z - AtanTable[i + 1], i + 1)

\* the angle of the vector (x, y), x >= 0, y >= 0, not both 0, in [0, 90] degrees
AtanQuadrant(x, y) ==
    IF y = 0 THEN Q(0, 1)
    ELSE IF x = 0 THEN Q(90, 1)
    ELSE LET m == IF x > y THEN x ELSE y
             f == Pow2(28) \div m
         IN  Q((Cordic(x * f, y * f, 0, 0) + 500) \div 1000, 1000)

\* Math.atan2(y, x) * 180 / Math.PI for finite y and x, in (-180, 180];
\* atan2(0, 0) is 0
atan2Deg(y, x) ==
    LET yy == y.n * x.d
        xx == x.n * y.d
        ay == IF yy < 0 THEN -yy ELSE yy
        ax == IF xx < 0 THEN -xx ELSE xx
        a == IF ax = 0 /\ ay = 0 THEN Q(0, 1) ELSE AtanQuadrant(ax, ay)
        b == IF xx < 0 THEN Sub(Q(180, 1), a) ELSE a
    IN  IF yy < 0 THEN Neg(b) ELSE b

---------------------------------------------------------------------------
(* IEEE 754 doubles, for calculateAngle: a double is (-1)^neg * m * 2^e     *)
(* with m a natural number of at most 53 significant bits, held as a       *)
(* sequence of limbs, least significant first.                             *)

\* the limb base, 2^15: a product of two limbs fits the integers of TLC
Base == 32768

Zeros(k) == [i \in 1..k |-> 0]

\* a without its leading zero limbs
RECURSIVE BigNorm(_)
BigNorm(a) ==
    IF a = << >> THEN a
    ELSE IF a[Len(a)] = 0 THEN BigNorm(SubSeq(a, 1, Len(a) - 1)) ELSE a

RECURSIVE BigOfInt(_)
BigOfInt(n) == IF n = 0 THEN << >> ELSE << n % Base >> \o BigOfInt(n \div Base)

Limb(a, i) == IF i <= Len(a) THEN a[i] ELSE 0

RECURSIVE AddFrom(_, _, _, _)
AddFrom(a, b, i, carry) ==
    IF i > Len(a) /\ i > Len(b) THEN (IF carry = 0 THEN << >> ELSE << carry >>)
    ELSE LET t == Limb(a, i) + Limb(b, i) + carry
         IN  << t % Base >> \o AddFrom(a, b, i + 1, t \div Base)

BigAdd(a, b) == AddFrom(a, b, 1, 0)

\* a - b for a >= b
RECURSIVE SubFrom(_, _, _, _)
SubFrom(a, b, i, borrow) ==
    IF i > Len(a) THEN << >>
    ELSE LET t == a[i] - Limb(b, i) - borrow
         IN  IF t < 0 THEN << t + Base >> \o SubFrom(a, b, i + 1, 1)
             ELSE << t >> \o SubFrom(a, b, i + 1, 0)

BigSub(a, b) == BigNorm(SubFrom(a, b, 1, 0))

BigLess(a, b) ==
    IF Len(a) # Len(b) THEN Len(a) < Len(b)
    ELSE \E i \in 1..Len(a) :
            /\ a[i] < b[i]
            /\ \A j \in (i + 1)..Len(a) : a[j] = b[j]

\* a * k for 0 <= k <= Base
RECURSIVE MulFrom(_, _, _, _)
MulFrom(a, k, i, carry) ==
    IF i > Len(a) THEN (IF carry = 0 THEN << >> ELSE << carry >>)
    ELSE LET t == a[i] * k + carry
         IN  << t % Base >> \o MulFrom(a, k, i + 1, t \div Base)

BigMulSmall(a, k) == BigNorm(MulFrom(a, k, 1, 0))

\* the limbs 1..i of floor(a / k) for 0 < k <= Base, rem the remainder so far
RECURSIVE DivFrom(_, _, _, _)
DivFrom(a, k, i, rem) ==
    IF i = 0 THEN << >>
    ELSE LET t == rem * Base + a[i]
         IN  DivFrom(a, k, i - 1, t % k) \o << t \div k >>

\* a * 2^n and floor(a / 2^n)
BigShl(a, n) ==
    IF a = << >> THEN a ELSE Zeros(n \div 15) \o BigMulSmall(a, 2 ^ (n % 15))

BigShr(a, n) ==
    IF Len(a) <= n \div 15 THEN << >>
    ELSE LET top == SubSeq(a, (n \div 15) + 1, Len(a))
         IN  BigNorm(DivFrom(top, 2 ^ (n % 15), Len(top), 0))

\* the number of bits of a
BitLength(a) ==
    IF a = << >> THEN 0
    ELSE 15 * (Len(a) - 1) + (CHOOSE b \in 1..15 : 2 ^ (b - 1) <= a[Len(a)] /\ a[Len(a)] < 2 ^ b)

\* the largest t <= t0 with d * t <= r
RECURSIVE FixDigit(_, _, _)
FixDigit(r, d, t) == IF BigLess(r, BigMulSmall(d, t)) THEN FixDigit(r, d, t - 1) ELSE t

\* long division by d, whose top limb is at least Base / 2: the limbs i..1
\* of n are still to bring down, q and rem are the quotient and the
\* remainder of the limbs above them; the digit is estimated from the top
\* limbs and is at most 2 too large
RECURSIVE DivLimbs(_, _, _, _, _)
DivLimbs(n, d, i, q, rem) ==
    IF i = 0 THEN [q |-> BigNorm(q), rem |-> rem]
    ELSE LET r == BigNorm(<< n[i] >> \o rem)
             r2 == Limb(r, Len(d) + 1) * Base + Limb(r, Len(d))
             t0 == IF r2 \div d[Len(d)] < Base THEN r2 \div d[Len(d)] ELSE Base - 1
             t == FixDigit(r, d, t0)
         IN  DivLimbs(n, d, i - 1, << t >> \o q, BigSub(r, BigMulSmall(d, t)))

\* the quotient and the remainder of n by d # 0
BigDivMod(n, d) ==
    LET s == (15 * Len(d)) - BitLength(d)
        qr == DivLimbs(BigShl(n, s), BigShl(d, s), Len(BigShl(n, s)), << >>, << >>)
    IN  [q |-> qr.q, rem |-> BigShr(qr.rem, s)]

Double(neg, m, e) == [neg |-> neg, m |-> m, e |-> e]

\* (-1)^neg * n * 2^e rounded to 53 bits, to nearest, ties to even
FRound(neg, n, e) ==
    IF BitLength(n) <= 53 THEN Double(neg /\ n # << >>, n, e)
    ELSE LET s == BitLength(n) - 53
             q == BigShr(n, s)
             rem == BigSub(n, BigShl(q, s))
             half == BigShl(<< 1 >>, s - 1)
             up == BigLess(half, rem) \/ (rem = half /\ q[1] % 2 = 1)
         IN  Double(neg, IF up THEN BigAdd(q, << 1 >>) ELSE q, e + s)

FOfInt(i) == Double(i < 0, BigOfInt(IF i < 0 THEN -i ELSE i), 0)

FNeg(a) == Double(~a.neg /\ a.m # << >>, a.m, a.e)

\* a + b
FAdd(a, b) ==
    LET e == IF a.e < b.e THEN a.e ELSE b.e
        am == BigShl(a.m, a.e - e)
        bm == BigShl(b.m, b.e - e)
    IN  IF a.neg = b.neg THEN FRound(a.neg, BigAdd(am, bm), e)
        ELSE IF BigLess(am, bm) THEN FRound(b.neg, BigSub(bm, am), e)
        ELSE FRound(a.neg, BigSub(am, bm), e)

\* a - b, a * k for a natural number k <= Base, a / b for b # 0
FSub(a, b) == FAdd(a, FNeg(b))

FMulSmall(a, k) == FRound(a.neg, BigMulSmall(a.m, k), a.e)

FDiv(a, b) ==
    IF a.m = << >> THEN a
    ELSE LET sh == 56 + BitLength(b.m) - BitLength(a.m)
             qr == BigDivMod(BigShl(a.m, sh), b.m)
             sticky == IF qr.rem = << >> THEN << >> ELSE << 1 >>
         IN  FRound(a.neg # b.neg, BigAdd(BigMulSmall(qr.q, 2), sticky), a.e - b.e - sh - 1)

FAbs(a) == Double(FALSE, a.m, a.e)

\* a = b and a < b
FEq(a, b) == FSub(a, b).m = << >>
FLess(a, b) == LET d == FSub(a, b) IN d.neg /\ d.m # << >>

---------------------------------------------------------------------------
(* Math.atan2 and Math.PI as doubles.  ECMAScript leaves the last bit of   *)
(* Math.atan2 to the implementation: atan2Impl is "fdlibm" for the         *)
(* algorithm of fdlibm (V8, SpiderMonkey) and "rounded" for a correctly    *)
(* rounded result.                                                         *)

\* Math.atan2(y, x) for y = 1..4 (row) and x = 1..4 (column) in units of
\* 2^-55; the same in both implementations
Atan2Q1 ==
    << << <<13408, 8737, 8117, 804>>, <<30366, 5510, 25400, 474>>, <<15810, 3226, 15485, 329>>, <<221, 29273, 28119, 250>> >>,
       << <<29216, 11963, 23602, 1133>>, <<13408, 8737, 8117, 804>>, <<3668, 12339, 3757, 602>>, <<30366, 5510, 25400, 474>> >>,
       << <<11008, 14248, 749, 1279>>, <<23148, 5135, 12477, 1006>>, <<13408, 8737, 8117, 804>>, <<31620, 6452, 30970, 658>> >>,
       << <<26600, 20969, 20882, 1357>>, <<29216, 11963, 23602, 1133>>, <<27964, 11021, 18032, 949>>, <<13408, 8737, 8117, 804>> >> >>

\* Math.atan2(y, -x) for y = 1..4 (row) and x = 1..4 (column) in units of
\* 2^-55, as fdlibm computes it: pi - (atan(y / x) - pi_lo)
Atan2Q2 ==
    << << <<7456, 26212, 24351, 2412>>, <<23264, 29438, 7068, 2742>>, <<5056, 31723, 16983, 2887>>, <<20640, 5676, 4349, 2966>> >>,
       << <<24416, 22985, 8866, 2083>>, <<7456, 26212, 24351, 2412>>, <<17200, 22610, 28711, 2614>>, <<23264, 29438, 7068, 2742>> >>,
       << <<9864, 20701, 31719, 1937>>, <<30496, 29813, 19991, 2210>>, <<7456, 26212, 24351, 2412>>, <<22016, 28496, 1498, 2558>> >>,
       << <<27040, 13979, 11586, 1859>>, <<24416, 22985, 8866, 2083>>, <<25664, 23927, 14436, 2267>>, <<7456, 26212, 24351, 2412>> >> >>

\* the one entry of Atan2Q2 that is not the correctly rounded value:
\* Math.atan2(3, -2)
Atan2Q2Rounded == [Atan2Q2 EXCEPT ![3][2] = <<30480, 29813, 19991, 2210>>]

\* Math.PI = 3.141592653589793 and Math.PI / 2 in units of 2^-55
MathPI == Double(FALSE, <<20864, 2181, 32469, 3216>>, -55)
HalfPI == Double(FALSE, <<26816, 17474, 16234, 1608>>, -55)

\* Math.atan2(y, x) for integers y and x up to 4 in absolute value
MathAtan2(y, x, impl) ==
    LET ay == IF y < 0 THEN -y ELSE y
        ax == IF x < 0 THEN -x ELSE x
        a == IF ay = 0 THEN (IF x < 0 THEN MathPI ELSE FOfInt(0))
             ELSE IF ax = 0 THEN HalfPI
             ELSE IF x > 0 THEN Double(FALSE, Atan2Q1[ay][ax], -55)
             ELSE IF impl = "fdlibm" THEN Double(FALSE, Atan2Q2[ay][ax], -55)
             ELSE Double(FALSE, Atan2Q2Rounded[ay][ax], -55)
    IN  IF y < 0 THEN FNeg(a) ELSE a

---------------------------------------------------------------------------
(* calculateAngle.                                                         *)

\* calculateAngle without Math.abs: the signed difference of the two polar
\* angles, reflected at 180
calculateAngleSigned(p1, p2, p3, impl) ==
    LET radians == FSub(MathAtan2(p3.y - p2.y, p3.x - p2.x, impl),
                        MathAtan2(p1.y - p2.y, p1.x - p2.x, impl))
        degrees == FDiv(FMulSmall(radians, 180), MathPI)
    IN  IF FLess(FOfInt(180), degrees) THEN FSub(FOfInt(360), degrees) ELSE degrees

\* the difference of the polar angles of point2->point3 and point2->point1,
\* in degrees, its absolute value, reflected at 180
calculateAngle(p1, p2, p3, impl) ==
    LET radians == FSub(MathAtan2(p3.y - p2.y, p3.x - p2.x, impl),
                        MathAtan2(p1.y - p2.y, p1.x - p2.x, impl))
        degrees == FAbs(FDiv(FMulSmall(radians, 180), MathPI))
    IN  IF FLess(FOfInt(180), degrees) THEN FSub(FOfInt(360), degrees) ELSE degrees

---------------------------------------------------------------------------
(* analyzePosture.                                                         *)

\* a lookup that takes the last match instead of the first
findLast(kps, name) ==
    IF \E i \in 1..Len(kps) : kps[i].name = name
    THEN kps[CHOOSE i \in 1..Len(kps) :
                /\ kps[i].name = name
                /\ \A j \in (i + 1)..Len(kps) : kps[j].name # name]
    ELSE undefined

\* Array.prototype.find(kp => kp.name === name): the first match, or undefined
find(kps, name) ==
    IF \E i \in 1..Len(kps) : kps[i].name = name
    THEN kps[CHOOSE i \in 1..Len(kps) :
                /\ kps[i].name = name
                /\ \A j \in 1..(i - 1) : kps[j].name # name]
    ELSE undefined

minConfidence == Q(3, 10)

PostureStatus(score, message, color) ==
    [score |-> score, message |-> message, color |-> color]

shoulderTiltOf(leftShoulder, rightShoulder) ==
    LET shoulderDiff == MathAbs(Sub(Int2Num(leftShoulder.y), Int2Num(rightShoulder.y)))
        shoulderWidth == MathAbs(Sub(Int2Num(leftShoulder.x), Int2Num(rightShoulder.x)))
    IN  Mul(Div(shoulderDiff, shoulderWidth), Q(100, 1))

hipTiltOf(leftHip, rightHip) ==
    LET hipDiff == MathAbs(Sub(Int2Num(leftHip.y), Int2Num(rightHip.y)))
        hipWidth == MathAbs(Sub(Int2Num(leftHip.x), Int2Num(rightHip.x)))
    IN  Mul(Div(hipDiff, hipWidth), Q(100, 1))

spineAngleOf(leftShoulder, rightShoulder, leftHip, rightHip) ==
    LET shoulderCenter ==
            [x |-> Div(Add(Int2Num(leftShoulder.x), Int2Num(rightShoulder.x)), Q(2, 1)),
             y |-> Div(Add(Int2Num(leftShoulder.y), Int2Num(rightShoulder.y)), Q(2, 1))]
        hipCenter ==
            [x |-> Div(Add(Int2Num(leftHip.x), Int2Num(rightHip.x)), Q(2, 1)),
             y |-> Div(Add(Int2Num(leftHip.y), Int2Num(rightHip.y)), Q(2, 1))]
    IN  MathAbs(Sub(Q(90, 1),
                    MathAbs(atan2Deg(Sub(hipCenter.y, shoulderCenter.y),
                                     Sub(hipCenter.x, shoulderCenter.x)))))

\* scoreOf with the spine angle penalised in full instead of by half
scoreOfSpineInFull(shoulderTilt, hipTilt, spineAngle) ==
    LET s0 == Q(100, 1)
        s1 == Sub(s0, Mul(shoulderTilt, Q(2, 1)))
        s2 == Sub(s1, Mul(hipTilt, Q(2, 1)))
        s3 == Sub(s2, spineAngle)
    IN  MathMax(Q(0, 1), MathMin(Q(100, 1), s3))

\* score = 100 - shoulderTilt * 2 - hipTilt * 2 - spineAngle * 0.5, clamped
scoreOf(shoulderTilt, hipTilt, spineAngle) ==
    LET s0 == Q(100, 1)
        s1 == Sub(s0, Mul(shoulderTilt, Q(2, 1)))
        s2 == Sub(s1, Mul(hipTilt, Q(2, 1)))
        s3 == Sub(s2, Mul(spineAngle, Q(1, 2)))
    IN  MathMax(Q(0, 1), MathMin(Q(100, 1), s3))

\* feedback with the hip rule tried before the shoulder rule
feedbackHipRuleFirst(shoulderTilt, hipTilt, score) ==
    IF Gt(hipTilt, Q(15, 1))
    THEN PostureStatus(MathRound(score), "Adjust your sitting posture", "warning")
    ELSE IF Gt(shoulderTilt, Q(15, 1))
    THEN PostureStatus(MathRound(score), "Straighten your shoulders", "destructive")
    ELSE IF Gt(score, Q(80, 1))
    THEN PostureStatus(MathRound(score), "Good posture detected!", "success")
    ELSE IF Gt(score, Q(60, 1))
    THEN PostureStatus(MathRound(score), "Minor adjustments needed", "warning")
    ELSE PostureStatus(MathRound(score), "Poor posture - sit up straight", "destructive")

\* the feedback rules, first match first
feedback(shoulderTilt, hipTilt, score) ==
    IF Gt(shoulderTilt, Q(15, 1))
    THEN PostureStatus(MathRound(score), "Straighten your shoulders", "destructive")
    ELSE IF Gt(hipTilt, Q(15, 1))
    THEN PostureStatus(MathRound(score), "Adjust your sitting posture", "warning")
    ELSE IF Gt(score, Q(80, 1))
    THEN PostureStatus(MathRound(score), "Good posture detected!", "success")
    ELSE IF Gt(score, Q(60, 1))
    THEN PostureStatus(MathRound(score), "Minor adjustments needed", "warning")
    ELSE PostureStatus(MathRound(score), "Poor posture - sit up straight", "destructive")

\* the check that all four landmarks were found
anyMissing(leftShoulder, rightShoulder, leftHip, rightHip) ==
    \/ leftShoulder = undefined
    \/ rightShoulder = undefined
    \/ leftHip = undefined
    \/ rightHip = undefined

\* the confidence check
lowConfidence(leftShoulder, rightShoulder, leftHip, rightHip) ==
    \/ Lt(leftShoulder.score, minConfidence)
    \/ Lt(rightShoulder.score, minConfidence)
    \/ Lt(leftHip.score, minConfidence)
    \/ Lt(rightHip.score, minConfidence)

\* analyzeLandmarks with the confidence of the landmarks that were found
\* checked before the check that all four were found
analyzeLandmarksConfidenceFirst(leftShoulder, rightShoulder, leftHip, rightHip) ==
    IF \E kp \in {leftShoulder, rightShoulder, leftHip, rightHip} \ {undefined} :
           Lt(kp.score, minConfidence)
    THEN PostureStatus(Q(0, 1), "Move closer or improve lighting", "warning")
    ELSE IF anyMissing(leftShoulder, rightShoulder, leftHip, rightHip)
    THEN PostureStatus(Q(0, 1), "Position yourself in frame", "warning")
    ELSE LET shoulderTilt == shoulderTiltOf(leftShoulder, rightShoulder)
             hipTilt == hipTiltOf(leftHip, rightHip)
             spineAngle == spineAngleOf(leftShoulder, rightShoulder, leftHip, rightHip)
         IN  feedback(shoulderTilt, hipTilt, scoreOf(shoulderTilt, hipTilt, spineAngle))

\* analyzePosture from the four lookups on: the two checks, the metrics,
\* the score and the feedback
analyzeLandmarks(leftShoulder, rightShoulder, leftHip, rightHip) ==
    IF anyMissing(leftShoulder, rightShoulder, leftHip, rightHip)
    THEN PostureStatus(Q(0, 1), "Position yourself in frame", "warning")
    ELSE IF lowConfidence(leftShoulder, rightShoulder, leftHip, rightHip)
    THEN PostureStatus(Q(0, 1), "Move closer or improve lighting", "warning")
    ELSE LET shoulderTilt == shoulderTiltOf(leftShoulder, rightShoulder)
             hipTilt == hipTiltOf(leftHip, rightHip)
             spineAngle == spineAngleOf(leftShoulder, rightShoulder, leftHip, rightHip)
         IN  feedback(shoulderTilt, hipTilt, scoreOf(shoulderTilt, hipTilt, spineAngle))

\* analyzePosture smoothing the score over the frames: the mean of the new
\* score and the one in postureStatus
analyzePostureSmoothed(kps) ==
    LET fresh == analyzeLandmarks(find(kps, "left_shoulder"), find(kps, "right_shoulder"),
                                  find(kps, "left_hip"), find(kps, "right_hip"))
    IN  [fresh EXCEPT !.score = MathRound(Div(Add(fresh.score, postureStatus.score), Q(2, 1)))]

analyzePosture(kps) ==
    LET leftShoulder == find(kps, "left_shoulder")
        rightShoulder == find(kps, "right_shoulder")
        leftHip == find(kps, "left_hip")
        rightHip == find(kps, "right_hip")
    IN  analyzeLandmarks(leftShoulder, rightShoulder, leftHip, rightHip)

---------------------------------------------------------------------------
(* The inputs of analyzePosture.                                           *)

Keypoint(name, x, y, score) == [name |-> name, x |-> x, y |-> y, score |-> score]

\* the confidences a keypoint may carry: none, below, at and above the gate
Confidences == {undefined, Q(1, 10), Q(3, 10), Q(9, 10)}

\* a landmark the pose model did not deliver
absent == [k |-> "absent"]

\* the entries of one landmark in the sequence: none when absent
Entry(name, x, y, c) == IF c = absent THEN << >> ELSE << Keypoint(name, x, y, c) >>

\* the four landmarks, each once, with confidence above the gate
GeometryFrame(lsx, lsy, rsx, rsy, lhx, lhy, rhx, rhy) ==
    << Keypoint("left_shoulder", lsx, lsy, Q(9, 10)),
       Keypoint("right_shoulder", rsx, rsy, Q(9, 10)),
       Keypoint("left_hip", lhx, lhy, Q(9, 10)),
       Keypoint("right_hip", rhx, rhy, Q(9, 10)) >>

\* the width of the shoulders and of the hips of a seated subject: a tilt
\* is then a multiple of 100 / Width
Width == 5 * MaxOffset

\* a seated subject: shoulders Width apart at heights a and b, the hips
\* Width apart, Width further down at heights Width + c and Width + d, and
\* shifted sideways by hx
SeatedFrame(a, b, c, d, hx) ==
    GeometryFrame(0, a, Width, b, hx, Width + c, hx + Width, Width + d)

\* each landmark absent (c = absent) or present with confidence c; the left
\* landmarks at x = 0, the right shoulder at height 0 and the right hip at
\* height Width
GateFrame(c1, c2, c3, c4, lsy, rsx, lhy, rhx) ==
    Entry("left_shoulder", 0, lsy, c1) \o Entry("right_shoulder", rsx, 0, c2)
        \o Entry("left_hip", 0, lhy, c3) \o Entry("right_hip", rhx, Width, c4)

\* the landmarks anywhere on a small grid: zero widths, coincident landmarks,
\* steep tilts, hips beside or above the shoulders
InitGrid ==
    \E lsx \in 0..MaxGrid, rsx \in 0..MaxGrid, lhx \in 0..MaxGrid, rhx \in 0..MaxGrid :
        \E lsy \in 0..MaxGrid, rsy \in 0..MaxGrid, lhy \in 0..MaxGrid, rhy \in 0..MaxGrid :
            keypoints = GeometryFrame(lsx, lsy, rsx, rsy, lhx, lhy, rhx, rhy)

\* the seated subjects: tilts around the limit of 15, spine angles up to 45
InitSeated ==
    \E a \in 0..MaxOffset, b \in 0..MaxOffset, c \in 0..MaxOffset, d \in 0..MaxOffset :
        \E hx \in 0..Width :
            keypoints = SeatedFrame(a, b, c, d, hx)

\* the landmarks absent or with any confidence, the right ones Width away from
\* the left ones or on top of them, the left ones level with the right ones
\* or one off
InitGate ==
    \E c1 \in Confidences \cup {absent}, c2 \in Confidences \cup {absent},
       c3 \in Confidences \cup {absent}, c4 \in Confidences \cup {absent} :
        \E dls \in {0, 1}, dlh \in {0, 1}, nrs \in {0, Width}, nrh \in {0, Width} :
            keypoints = GateFrame(c1, c2, c3, c4, dls, Width - nrs, Width - dlh, Width - nrh)

\* the entries a landmark at (x, y) may have: at its place, MaxOffset lower,
\* with a confidence under the gate, or none
Variant(name, x, y, v) ==
    IF v = "level" THEN << Keypoint(name, x, y, Q(9, 10)) >>
    ELSE IF v = "lower" THEN << Keypoint(name, x, y + MaxOffset, Q(9, 10)) >>
    ELSE IF v = "low" THEN << Keypoint(name, x, y, Q(1, 10)) >>
    ELSE << >>

\* a keypoint the analysis does not ask for
nose == << Keypoint("nose", Width, 0, Q(1, 10)) >>

\* the four landmarks of an upright subject as variants v1..v4, each followed
\* at once (interleaved) or after all four by a duplicate d1..d4 of its name,
\* with a nose in front or at the end
DuplicatesFrame(v1, v2, v3, v4, d1, d2, d3, d4, interleaved, extra) ==
    LET ls == Variant("left_shoulder", 0, 0, v1)
        rs == Variant("right_shoulder", Width, 0, v2)
        lh == Variant("left_hip", 0, Width, v3)
        rh == Variant("right_hip", Width, Width, v4)
        ls2 == Variant("left_shoulder", 0, 0, d1)
        rs2 == Variant("right_shoulder", Width, 0, d2)
        lh2 == Variant("left_hip", 0, Width, d3)
        rh2 == Variant("right_hip", Width, Width, d4)
        body == IF interleaved
                THEN ls \o ls2 \o rs \o rs2 \o lh \o lh2 \o rh \o rh2
                ELSE ls \o rs \o lh \o rh \o ls2 \o rs2 \o lh2 \o rh2
    IN  IF extra = "front" THEN nose \o body
        ELSE IF extra = "back" THEN body \o nose
        ELSE body

FirstVariants == {"level", "lower", "low"}
LaterVariants == {"lower", "low", "none"}

\* KeypointSets with duplicate names and names the analysis does not use
InitDuplicates ==
    \E v1 \in FirstVariants, v2 \in FirstVariants, v3 \in FirstVariants, v4 \in FirstVariants :
        \E d1 \in LaterVariants, d2 \in LaterVariants, d3 \in LaterVariants, d4 \in LaterVariants :
            \E interleaved \in BOOLEAN, extra \in {"none", "front", "back"} :
                keypoints = DuplicatesFrame(v1, v2, v3, v4, d1, d2, d3, d4, interleaved, extra)

\* the component as mounted: useState and useRef initial values
InitComponent ==
    /\ isActive = FALSE
    /\ postureStatus = PostureStatus(Q(0, 1), "Start camera to begin", "success")
    /\ detectorRef = "null"
    /\ animationRef = 0
    /\ srcObject = 0
    /\ liveStreams = {}
    /\ frames = {}
    /\ inflight = {}
    /\ starts = {}
    /\ effect = "none"
    /\ requested = 0
    /\ captured = 0
    /\ acquired = 0
    /\ clicks = 0
    /\ stopped = FALSE
    /\ lastPublished = 0
    /\ calls = {}
    /\ failed = FALSE

Point(x, y) == [x |-> x, y |-> y]

\* no calculateAngle call: the component never calls it
InitNoAngle ==
    /\ point1 = Point(0, 0)
    /\ point2 = Point(0, 0)
    /\ point3 = Point(0, 0)
    /\ angle = undefined
    /\ atan2Impl = "fdlibm"

Init ==
    /\ \/ InitGrid
       \/ InitSeated
       \/ InitGate
       \/ InitDuplicates
    /\ result = undefined
    /\ pc = "call"
    /\ InitComponent
    /\ InitNoAngle

\* const status = analyzePosture(poses[0].keypoints)
Analyze ==
    /\ pc = "call"
    /\ result' = analyzePosture(keypoints)
    /\ pc' = "returned"
    /\ UNCHANGED <<keypoints, componentVars, angleVars>>

Next == Analyze

Spec == Init /\ [][Next]_vars

\* calculateAngle called on its own, on points of a grid around two vertices
InitAngle ==
    /\ \E x1 \in -MaxCoord..MaxCoord, y1 \in -MaxCoord..MaxCoord,
          x3 \in -MaxCoord..MaxCoord, y3 \in -MaxCoord..MaxCoord, v \in {0, 1} :
           /\ point1 = Point(v + x1, v + y1)
           /\ point2 = Point(v, v)
           /\ point3 = Point(v + x3, v + y3)
    /\ atan2Impl \in {"fdlibm", "rounded"}
    /\ angle = undefined
    /\ keypoints = << >>
    /\ result = undefined
    /\ pc = "call"
    /\ InitComponent

\* const angle = calculateAngle(point1, point2, point3)
Angle ==
    /\ pc = "call"
    /\ angle' = calculateAngle(point1, point2, point3, atan2Impl)
    /\ pc' = "returned"
    /\ UNCHANGED <<keypoints, result, componentVars, point1, point2, point3, atan2Impl>>

NextAngle == Angle

SpecAngle == InitAngle /\ [][NextAngle]_vars

---------------------------------------------------------------------------
(* The component: startCamera, stopCamera, detectPose and the isActive     *)
(* effect.  The video and canvas elements stay mounted, so videoRef.current*)
(* and canvasRef.current are never null.  React commits a state change and *)
(* runs the effect it makes due before it handles the next event.          *)

\* the keypoints estimatePoses may deliver: an upright subject, one with
\* tilted shoulders, and a pose without the hip landmarks
PoseFrames ==
    { SeatedFrame(0, 0, 0, 0, 0),
      SeatedFrame(MaxOffset, 0, 0, 0, 0),
      << Keypoint("left_shoulder", 0, 0, Q(9, 10)), Keypoint("right_shoulder", Width, 0, Q(9, 10)) >> }

\* setIsActive(v): a change is committed and makes the effect due
setIsActive(v) ==
    /\ isActive' = v
    /\ effect' = IF v # isActive THEN "due" ELSE "none"

\* cancelAnimationFrame(id): the pending requests without request id
cancelAnimationFrame(id) == { f \in frames : f.id # id }

\* detectPose up to await estimatePoses(video), as the closure of a render
\* in which isActive was `active`
detectPose(active) ==
    IF detectorRef = "null" \/ ~active
    THEN UNCHANGED <<inflight, captured>>
    ELSE /\ captured' = captured + 1
         /\ inflight' = inflight \cup {[seq |-> captured + 1, active |-> active]}

\* the effect of [isActive]: the cleanup of the previous run, then the body
useEffect ==
    /\ effect = "due"
    /\ effect' = "none"
    /\ frames' = IF animationRef # 0 THEN cancelAnimationFrame(animationRef) ELSE frames
    /\ IF isActive THEN detectPose(isActive) ELSE UNCHANGED <<inflight, captured>>
    /\ UNCHANGED <<analysisVars, angleVars, failed, isActive, postureStatus, detectorRef, animationRef,
                   srcObject, liveStreams, starts, requested, acquired, clicks,
                   stopped, lastPublished, calls>>

\* an animation frame request is served: detectPose runs to its await
animationFrame(f) ==
    /\ effect = "none"
    /\ f \in frames
    /\ frames' = frames \ {f}
    /\ detectPose(f.active)
    /\ UNCHANGED <<analysisVars, angleVars, failed, isActive, postureStatus, detectorRef, animationRef,
                   srcObject, liveStreams, starts, effect, requested, acquired,
                   clicks, stopped, lastPublished, calls>>

\* animationRef.current = requestAnimationFrame(detectPose)
requestAnimationFrame(it) ==
    /\ requested' = requested + 1
    /\ animationRef' = requested + 1
    /\ frames' = frames \cup {[id |-> requested + 1, active |-> it.active]}
    /\ inflight' = inflight \ {it}

\* estimatePoses resolves with a pose: drawPose, analyzePosture,
\* setPostureStatus, then the next frame is requested
detectPosePoses(it, kps) ==
    /\ effect = "none"
    /\ it \in inflight
    /\ requested < MaxFrames
    /\ keypoints' = kps
    /\ result' = analyzePosture(kps)
    /\ postureStatus' = result'
    /\ lastPublished' = it.seq
    /\ calls' = calls \cup {[keypoints |-> kps, before |-> postureStatus,
                               result |-> result', after |-> keypoints']}
    /\ requestAnimationFrame(it)
    /\ UNCHANGED <<pc, isActive, detectorRef, srcObject, liveStreams, starts, effect,
                   captured, acquired, clicks, stopped, angleVars, failed>>

\* detectPoseNothing with the error leaving detectPose: no next frame is
\* requested
detectPoseNothingStops(it) ==
    /\ effect = "none"
    /\ it \in inflight
    /\ requested < MaxFrames
    /\ inflight' = inflight \ {it}
    /\ UNCHANGED <<analysisVars, angleVars, failed, isActive, postureStatus, detectorRef,
                   srcObject, liveStreams, starts, effect, captured, acquired, clicks,
                   stopped, lastPublished, calls, requested, animationRef, frames>>

\* estimatePoses resolves with no pose, or throws and the error is logged:
\* only the next frame is requested
detectPoseNothing(it) ==
    /\ effect = "none"
    /\ it \in inflight
    /\ requested < MaxFrames
    /\ requestAnimationFrame(it)
    /\ UNCHANGED <<analysisVars, angleVars, failed, isActive, postureStatus, detectorRef, srcObject,
                   liveStreams, starts, effect, captured, acquired, clicks, stopped,
                   lastPublished, calls>>

\* a click on the button while it shows Start: startCamera runs to
\* await getUserMedia
startCamera ==
    /\ effect = "none"
    /\ ~isActive
    /\ clicks < MaxClicks
    /\ clicks' = clicks + 1
    /\ starts' = starts \cup {[id |-> clicks + 1, stage |-> "getUserMedia"]}
    /\ stopped' = FALSE
    /\ UNCHANGED <<analysisVars, angleVars, failed, isActive, postureStatus, detectorRef, animationRef,
                   srcObject, liveStreams, frames, inflight, effect, requested,
                   captured, acquired, lastPublished, calls>>

\* getUserMedia resolves: the stream is attached; with a detector at hand
\* setIsActive(true), else startCamera goes on to await initDetector
getUserMediaResolves(st) ==
    /\ effect = "none"
    /\ st \in starts
    /\ st.stage = "getUserMedia"
    /\ acquired' = acquired + 1
    /\ liveStreams' = liveStreams \cup {acquired + 1}
    /\ srcObject' = acquired + 1
    /\ IF detectorRef = "null"
       THEN /\ starts' = (starts \ {st}) \cup {[st EXCEPT !.stage = "initDetector"]}
            /\ UNCHANGED <<isActive, effect, failed>>
       ELSE /\ starts' = starts \ {st}
            /\ setIsActive(TRUE)
            /\ failed' = FALSE
    /\ UNCHANGED <<analysisVars, angleVars, postureStatus, detectorRef, animationRef, frames,
                   inflight, requested, captured, clicks, stopped, lastPublished, calls>>

\* getUserMedia rejects: the catch branch of startCamera
getUserMediaRejects(st) ==
    /\ effect = "none"
    /\ st \in starts
    /\ st.stage = "getUserMedia"
    /\ starts' = starts \ {st}
    /\ failed' = TRUE
    /\ postureStatus' = PostureStatus(Q(0, 1), "Camera access denied", "destructive")
    /\ UNCHANGED <<analysisVars, angleVars, isActive, detectorRef, animationRef, srcObject,
                   liveStreams, frames, inflight, effect, requested, captured,
                   acquired, clicks, stopped, lastPublished, calls>>

\* createDetector resolves: detectorRef.current is set, then setIsActive(true)
initDetectorResolves(st) ==
    /\ effect = "none"
    /\ st \in starts
    /\ st.stage = "initDetector"
    /\ starts' = starts \ {st}
    /\ detectorRef' = "detector"
    /\ setIsActive(TRUE)
    /\ failed' = FALSE
    /\ UNCHANGED <<analysisVars, angleVars, postureStatus, animationRef, srcObject, liveStreams,
                   frames, inflight, requested, captured, acquired, clicks, stopped,
                   lastPublished, calls>>

\* createDetector rejects: the catch branch of startCamera
initDetectorRejects(st) ==
    /\ effect = "none"
    /\ st \in starts
    /\ st.stage = "initDetector"
    /\ starts' = starts \ {st}
    /\ failed' = TRUE
    /\ postureStatus' = PostureStatus(Q(0, 1), "Camera access denied", "destructive")
    /\ UNCHANGED <<analysisVars, angleVars, isActive, detectorRef, animationRef, srcObject,
                   liveStreams, frames, inflight, effect, requested, captured,
                   acquired, clicks, stopped, lastPublished, calls>>

\* a click on the button while it shows Stop
stopCamera ==
    /\ effect = "none"
    /\ isActive
    /\ clicks < MaxClicks
    /\ clicks' = clicks + 1
    /\ liveStreams' = liveStreams \ {srcObject}
    /\ srcObject' = 0
    /\ frames' = IF animationRef # 0 THEN cancelAnimationFrame(animationRef) ELSE frames
    /\ setIsActive(FALSE)
    /\ postureStatus' = PostureStatus(Q(0, 1), "Camera stopped", "success")
    /\ stopped' = TRUE
    /\ UNCHANGED <<analysisVars, angleVars, failed, detectorRef, animationRef, inflight, starts,
                   requested, captured, acquired, lastPublished, calls>>

InitDriver ==
    /\ keypoints = << >>
    /\ result = undefined
    /\ pc = "component"
    /\ InitComponent
    /\ InitNoAngle

NextDriver ==
    \/ useEffect
    \/ startCamera
    \/ stopCamera
    \/ \E st \in starts : getUserMediaResolves(st)
    \/ \E st \in starts : getUserMediaRejects(st)
    \/ \E st \in starts : initDetectorResolves(st)
    \/ \E st \in starts : initDetectorRejects(st)
    \/ \E f \in frames : animationFrame(f)
    \/ \E it \in inflight : \E kps \in PoseFrames : detectPosePoses(it, kps)
    \/ \E it \in inflight : detectPoseNothing(it)

SpecDriver == InitDriver /\ [][NextDriver]_vars

---------------------------------------------------------------------------
(* The claims about analyzePosture.                                        *)

RequiredNames == {"left_shoulder", "right_shoulder", "left_hip", "right_hip"}

\* the KeypointSet has an entry with this name
HasEntry(name) == \E i \in 1..Len(keypoints) : keypoints[i].name = name

AllPresent == \A name \in RequiredNames : HasEntry(name)

\* a <= b, false when one side is NaN
Le(a, b) == Lt(a, b) \/ NumEq(a, b)

\* the first left_shoulder, right_shoulder, left_hip and right_hip entries
LeftShoulder == find(keypoints, "left_shoulder")
RightShoulder == find(keypoints, "right_shoulder")
LeftHip == find(keypoints, "left_hip")
RightHip == find(keypoints, "right_hip")

\* the call has returned
Returned == pc = "returned"

\* the call has returned for an input whose four landmarks passed both checks
Validated ==
    /\ Returned
    /\ AllPresent
    /\ ~lowConfidence(LeftShoulder, RightShoulder, LeftHip, RightHip)

ShoulderTilt == shoulderTiltOf(LeftShoulder, RightShoulder)
HipTilt == hipTiltOf(LeftHip, RightHip)

\* the score is an integer in [0, 100]
IsScore(s) == IsFinite(s) /\ s.d = 1 /\ s.n \in 0..100

\* C1: for every KeypointSet the returned score is an integer in [0, 100].
C1_ScoreInRange == Returned => IsScore(result.score)

\* C2: when one of the four required names has no entry, the result is exactly
\* score 0, 'Position yourself in frame', warning, whatever the confidence and
\* the position of the landmarks that are present.
C2_MissingLandmarks ==
    (Returned /\ ~AllPresent) =>
        result = PostureStatus(Q(0, 1), "Position yourself in frame", "warning")

\* C2's case: a landmark is missing and one that is present has a confidence
\* below the gate
C2_Witness ==
    /\ Returned
    /\ ~HasEntry("right_hip")
    /\ HasEntry("left_shoulder")
    /\ Lt(LeftShoulder.score, Q(3, 10))
    /\ result.message = "Position yourself in frame"

\* some required landmark has a confidence below 0.3 or none at all
SomeUntrusted ==
    \E name \in RequiredNames :
        LET kp == find(keypoints, name)
        IN  kp.score = undefined \/ Lt(kp.score, Q(3, 10))

\* C3: when all four landmarks are present and one has confidence below 0.3
\* or no confidence at all, the result is exactly score 0, 'Move closer or
\* improve lighting', warning.
C3_LowConfidence ==
    (Returned /\ AllPresent /\ SomeUntrusted) =>
        result = PostureStatus(Q(0, 1), "Move closer or improve lighting", "warning")

\* C4: for validated input, shoulderTilt > 15 gives 'Straighten your shoulders',
\* destructive, whatever hipTilt and the score are; shoulderTilt <= 15 and
\* hipTilt > 15 gives 'Adjust your sitting posture', warning.
C4_TiltRulesFirst ==
    Validated =>
        /\ Gt(ShoulderTilt, Q(15, 1)) =>
              /\ result.message = "Straighten your shoulders"
              /\ result.color = "destructive"
        /\ (Le(ShoulderTilt, Q(15, 1)) /\ Gt(HipTilt, Q(15, 1))) =>
              /\ result.message = "Adjust your sitting posture"
              /\ result.color = "warning"

\* C4's case: both tilts are above 15 and the shoulder rule has won
C4_Witness ==
    /\ Validated
    /\ Gt(ShoulderTilt, Q(15, 1))
    /\ Gt(HipTilt, Q(15, 1))
    /\ IsFinite(ShoulderTilt)
    /\ result.message = "Straighten your shoulders"

\* C5: for validated input with both tilts <= 15 the message agrees with the
\* returned score: 'Good posture detected!' exactly when it is > 80, 'Minor
\* adjustments needed' exactly when it is > 60 and <= 80, 'Poor posture - sit
\* up straight' exactly when it is <= 60.
C5_MessageAgreesWithScore ==
    (Validated /\ Le(ShoulderTilt, Q(15, 1)) /\ Le(HipTilt, Q(15, 1))) =>
        /\ (result.message = "Good posture detected!" /\ result.color = "success")
              <=> Gt(result.score, Q(80, 1))
        /\ (result.message = "Minor adjustments needed" /\ result.color = "warning")
              <=> (Gt(result.score, Q(60, 1)) /\ Le(result.score, Q(80, 1)))
        /\ (result.message = "Poor posture - sit up straight" /\ result.color = "destructive")
              <=> Le(result.score, Q(60, 1))

\* the shoulder pair or the hip pair has no horizontal width
ZeroWidth ==
    \/ LeftShoulder.x = RightShoulder.x
    \/ LeftHip.x = RightHip.x

\* the messages analyzePosture has for validated input, with their colors
DefinedFeedback ==
    { <<"Straighten your shoulders", "destructive">>,
      <<"Adjust your sitting posture", "warning">>,
      <<"Good posture detected!", "success">>,
      <<"Minor adjustments needed", "warning">>,
      <<"Poor posture - sit up straight", "destructive">> }

\* C6: for validated input with a zero-width shoulder or hip pair the result
\* has score exactly 0 and one of the defined messages.
C6_DegenerateScoreZero ==
    (Validated /\ ZeroWidth) =>
        /\ NumEq(result.score, Q(0, 1))
        /\ <<result.message, result.color>> \in DefinedFeedback

\* |a - b| of two integers
AbsDiff(a, b) == IF a < b THEN b - a ELSE a - b

\* the shoulder pair and the hip pair both have a horizontal width
NonZeroWidths == ~ZeroWidth

\* twice the offset of the hip centre from the shoulder centre
SpineDx == (LeftHip.x + RightHip.x) - (LeftShoulder.x + RightShoulder.x)
SpineDy == (LeftHip.y + RightHip.y) - (LeftShoulder.y + RightShoulder.y)

\* the two centres are the same point
CentresCoincide == SpineDx = 0 /\ SpineDy = 0

\* the angle in degrees between the line through the two centres and the
\* vertical: atan(|dx| / |dy|); 90 when the centres coincide
SpineDeviation ==
    IF CentresCoincide THEN Q(90, 1)
    ELSE AtanQuadrant(AbsDiff(SpineDy, 0), AbsDiff(SpineDx, 0))

\* round(clamp(100 - 2 * |dy|/|dx| * 100 - 2 * |dy|/|dx| * 100 - deviation / 2))
\* from the coordinates of the four landmarks
ExpectedScore ==
    LET st == Q(100 * AbsDiff(LeftShoulder.y, RightShoulder.y), AbsDiff(LeftShoulder.x, RightShoulder.x))
        ht == Q(100 * AbsDiff(LeftHip.y, RightHip.y), AbsDiff(LeftHip.x, RightHip.x))
        raw == Sub(Sub(Sub(Q(100, 1), Q(2 * st.n, st.d)), Q(2 * ht.n, ht.d)),
                   Q(SpineDeviation.n, 2 * SpineDeviation.d))
        clamped == IF Lt(raw, Q(0, 1)) THEN Q(0, 1)
                   ELSE IF Gt(raw, Q(100, 1)) THEN Q(100, 1) ELSE raw
    IN  MathRound(clamped)

\* level shoulders, level hips, and the two centres on one vertical
LevelAndAligned ==
    /\ LeftShoulder.y = RightShoulder.y
    /\ LeftHip.y = RightHip.y
    /\ SpineDx = 0

GoodPosture100 == PostureStatus(Q(100, 1), "Good posture detected!", "success")

\* C11 as stated: for validated input with non-zero shoulder and hip widths
\* the score is round(clamp(100 - 2 * shoulderTilt - 2 * hipTilt - spineAngle / 2,
\* 0, 100)) with spineAngle the deviation of the centre line from the vertical,
\* and level shoulders, level hips and vertically aligned centres give score
\* 100, 'Good posture detected!', success.
C11_ScoreFormulaAsStated ==
    (Validated /\ NonZeroWidths) =>
        /\ ~CentresCoincide => NumEq(result.score, ExpectedScore)
        /\ LevelAndAligned => result = GoodPosture100

\* C11 amended: the same, with the spine angle of two coincident centres
\* taken as 90, and score 100 for level shoulders, level hips and a hip centre
\* straight above or below the shoulder centre.
C11_ScoreFormula ==
    (Validated /\ NonZeroWidths) =>
        /\ NumEq(result.score, ExpectedScore)
        /\ (LevelAndAligned /\ ~CentresCoincide) => result = GoodPosture100

\* C11's case: both tilts and the spine deviation take part in a score
\* strictly between 0 and 100
C11_Witness ==
    /\ Validated
    /\ NonZeroWidths
    /\ Gt(ShoulderTilt, Q(0, 1))
    /\ Gt(HipTilt, Q(0, 1))
    /\ Gt(SpineDeviation, Q(0, 1))
    /\ SpineDeviation \notin {Q(45, 1), Q(90, 1)}
    /\ Gt(result.score, Q(0, 1))
    /\ Lt(result.score, Q(100, 1))

\* the entries of kps from position i on that are the first of a required
\* name not in seen
RECURSIVE FirstEntries(_, _, _)
FirstEntries(kps, i, seen) ==
    IF i > Len(kps) THEN << >>
    ELSE IF kps[i].name \in RequiredNames \ seen
         THEN << kps[i] >> \o FirstEntries(kps, i + 1, seen \cup {kps[i].name})
         ELSE FirstEntries(kps, i + 1, seen)

\* the KeypointSet reduced to the first entry of each required name
Canonical == FirstEntries(keypoints, 1, {})

\* C12: the result depends only on the first entry of each of the four
\* required names: every KeypointSet yields the result of the KeypointSet
\* reduced to those first entries, so two sets with equal first entries yield
\* identical results, whatever later duplicates and other names they contain.
C12_FirstMatchOnly == Returned => result = analyzePosture(Canonical)

\* C12's case: a nose and a later duplicate of a landmark that is not equal
\* to its first entry are in the set, and the result is not the one of the
\* set with the duplicates taken
C12_Witness ==
    /\ Returned
    /\ AllPresent
    /\ Len(keypoints) > Len(Canonical) + 1
    /\ \E i \in 1..Len(keypoints) : keypoints[i].name \notin RequiredNames
    /\ \E i \in 1..Len(keypoints) :
           /\ keypoints[i].name = "left_shoulder"
           /\ keypoints[i] # LeftShoulder
    /\ result # analyzeLandmarks(findLast(keypoints, "left_shoulder"),
                                 findLast(keypoints, "right_shoulder"),
                                 findLast(keypoints, "left_hip"),
                                 findLast(keypoints, "right_hip"))

---------------------------------------------------------------------------
(* The claims about calculateAngle.                                        *)

\* calculateAngle has returned
AngleReturned == angle # undefined

\* the rays from the vertex to point1 and to point3
Ray1 == Point(point1.x - point2.x, point1.y - point2.y)
Ray3 == Point(point3.x - point2.x, point3.y - point2.y)

Dot == Ray1.x * Ray3.x + Ray1.y * Ray3.y
Cross == Ray1.x * Ray3.y - Ray1.y * Ray3.x

NonZeroRays == Ray1 # Point(0, 0) /\ Ray3 # Point(0, 0)

\* the two rays are perpendicular
Perpendicular == NonZeroRays /\ Dot = 0

\* point1 and point3 lie on one line through the vertex, on opposite sides
Opposite == NonZeroRays /\ Cross = 0 /\ Dot < 0

\* both rays run along a coordinate axis
AxisParallel == (Ray1.x = 0 \/ Ray1.y = 0) /\ (Ray3.x = 0 \/ Ray3.y = 0)

\* the value is in [0, 180] and the same with point1 and point3 swapped
InRangeAndSymmetric ==
    /\ ~FLess(angle, FOfInt(0))
    /\ ~FLess(FOfInt(180), angle)
    /\ FEq(angle, calculateAngle(point3, point2, point1, atan2Impl))

\* C13 as stated: calculateAngle returns a value in [0, 180], the same with
\* point1 and point3 swapped, exactly 90 when the two rays from the vertex are
\* perpendicular and exactly 180 when point1 and point3 lie on opposite sides
\* of the vertex on one line.
C13_AngleAsStated ==
    AngleReturned =>
        /\ InRangeAndSymmetric
        /\ Perpendicular => FEq(angle, FOfInt(90))
        /\ Opposite => FEq(angle, FOfInt(180))

\* 2^-40, about 1e-12
Tolerance == Double(FALSE, << 1 >>, -40)

\* the angle is i up to the rounding of the five operations
Near(i) == ~FLess(Tolerance, FAbs(FSub(angle, FOfInt(i))))

\* C13 amended: calculateAngle returns a value in [0, 180], the same with
\* point1 and point3 swapped; for perpendicular rays it is 90 up to rounding
\* (within 2^-40) and exactly 90 when the rays run along the axes; for
\* opposite rays it is 180 up to rounding and exactly 180 when they run
\* along an axis.
C13_Angle ==
    AngleReturned =>
        /\ InRangeAndSymmetric
        /\ Perpendicular => Near(90)
        /\ (Perpendicular /\ AxisParallel) => FEq(angle, FOfInt(90))
        /\ Opposite => Near(180)
        /\ (Opposite /\ AxisParallel) => FEq(angle, FOfInt(180))

\* C13's case: perpendicular rays off the axes, for which the value is not
\* exactly 90
C13_Witness ==
    /\ AngleReturned
    /\ Perpendicular
    /\ ~AxisParallel
    /\ ~FEq(angle, FOfInt(90))

---------------------------------------------------------------------------
(* The claims about the detection loop.                                    *)

\* C7: after stopCamera has run, no analyzePosture call is made (no result
\* is published) and no detection frame is requested, also when stopCamera
\* runs while a detectPose call is suspended at await estimatePoses.
C7_NoDetectionAfterStop ==
    [][stopped => (lastPublished' = lastPublished /\ requested' = requested)]_vars

\* C8: at most one detection cycle is in flight at any time.
C8_OneDetectionInFlight == Cardinality(inflight) <= 1

\* C9: results are published in the order in which their frames were
\* captured.
C9_PublishedInCaptureOrder == [][lastPublished' >= lastPublished]_vars

\* C10: analyzePosture retains no state between calls: in any sequence of
\* calls, two calls with the same KeypointSet return the same result, whatever
\* was published, started or stopped before each of them, and the argument
\* is the same after the call as before.
C10_Stateless ==
    \A c1 \in calls :
        /\ c1.after = c1.keypoints
        /\ \A c2 \in calls : c1.keypoints = c2.keypoints => c1.result = c2.result

\* C10's case: the same KeypointSet was analysed twice, the second time with
\* another posture published than the first time
C10_Witness ==
    \E c1 \in calls : \E c2 \in calls :
        /\ c1.keypoints = c2.keypoints
        /\ c1.before # c2.before
        /\ c1.before.score # c2.before.score

\* what stopCamera publishes
CameraStopped == PostureStatus(Q(0, 1), "Camera stopped", "success")

\* C14: once stopCamera has set the status to score 0, 'Camera stopped', the
\* displayed postureStatus stays at that value until the next startCamera: no
\* result of a detection that was in flight at the stop overwrites it.
C14_StoppedStatusStays ==
    [][(stopped /\ postureStatus = CameraStopped /\ stopped') =>
           postureStatus' = CameraStopped]_vars

\* C15: every stream acquired by startCamera is released by the time the
\* component is inactive again: with the component inactive and no startCamera
\* call under way, no acquired track is live and no stream is attached to
\* the video element.
C15_StreamsReleased ==
    (~isActive /\ starts = {} /\ effect = "none") => (liveStreams = {} /\ srcObject = 0)

\* what the catch branch of startCamera publishes
CameraAccessDenied == PostureStatus(Q(0, 1), "Camera access denied", "destructive")

\* a startCamera call ends in its catch branch
FailureStep == failed' /\ Cardinality(starts') < Cardinality(starts)

\* C16: when startCamera fails, isActive remains false and postureStatus
\* becomes score 0, 'Camera access denied', destructive, and until a later
\* startCamera succeeds no detectPose iteration begins and no analyzePosture
\* call is made.
C16_FailedStart ==
    [][/\ FailureStep => (~isActive' /\ postureStatus' = CameraAccessDenied)
       /\ (failed /\ failed') => (captured' = captured /\ lastPublished' = lastPublished)]_vars

\* a detectPose iteration ends without a result: estimatePoses has thrown or
\* returned no poses
EmptyIteration == Cardinality(inflight') < Cardinality(inflight) /\ lastPublished' = lastPublished

\* C17: a detectPose iteration in which estimatePoses throws or returns no
\* poses leaves postureStatus unchanged, makes no analyzePosture call and
\* requests exactly one next frame, which runs detectPose of the active
\* component.
C17_EmptyFrameKeepsLoop ==
    [][EmptyIteration =>
           /\ postureStatus' = postureStatus
           /\ calls' = calls /\ result' = result
           /\ requested' = requested + 1
           /\ animationRef' = requested'
           /\ frames' = frames \cup {[id |-> requested', active |-> TRUE]}
           /\ Cardinality(frames') = Cardinality(frames) + 1]_vars

\* C17's case: the camera is active, a frame is pending, and no iteration so
\* far had a result
C17_Witness ==
    /\ isActive
    /\ requested > 0
    /\ calls = {}
    /\ \E f \in frames : f.id = animationRef

\* a tilt rule has fired
TiltRuleFired == result.message \in {"Straighten your shoulders", "Adjust your sitting posture"}

\* C18: for validated input, when shoulderTilt > 15 or hipTilt > 15 (a tilt
\* rule fires) the returned score is at most 70; hence a score above 80 has
\* both tilts below 10, and no tilt rule fires on it.
C18_TiltRuleScore ==
    Validated =>
        /\ (Gt(ShoulderTilt, Q(15, 1)) \/ Gt(HipTilt, Q(15, 1)) \/ TiltRuleFired) =>
               Le(result.score, Q(70, 1))
        /\ Gt(result.score, Q(80, 1)) =>
               /\ Lt(ShoulderTilt, Q(10, 1))
               /\ Lt(HipTilt, Q(10, 1))
               /\ ~TiltRuleFired

=============================================================================
